---- MODULE Spec2Model ----
(***************************************************************************)
(* Epoch runners of burn-train (crates/burn-train/src/learner/epoch.rs):   *)
(* ValidEpoch::run, TrainEpoch::run and TrainEpoch::run_multi_device.      *)
(*                                                                         *)
(* A data source is modelled by its length; the item fetched from source d *)
(* at position i is the pair <<d, i>>, and the gradients of an item are    *)
(* identified with the item.  An Option is a sequence of length 0 or 1.    *)
(* The learning-rate scheduler is the number of times it has been stepped; *)
(* the rate it returns is that number.                                     *)
(***************************************************************************)
EXTENDS Integers, Sequences, FiniteSets, TLC

\* Bounds of the model.
MaxLen == 3
MaxDevices == 2
MaxWindow == 2
MaxRuns == 2

VARIABLES
    dataloader,            \* TrainEpoch.dataloader: the length of each source
    valid_dataloader,      \* ValidEpoch.dataloader: the length of the source
    epoch,                 \* TrainEpoch.epoch
    valid_epoch,           \* ValidEpoch.epoch
    grad_accumulation,     \* TrainEpoch.grad_accumulation: Option<usize>
    scheduler,             \* the LrScheduler handed to the runner
    should_stop,           \* the TrainingInterrupter flag
    call,                  \* the function being (or last) executed
    pc,                    \* the position inside it
    runs,                  \* number of calls started
    devices,               \* devices.len() of the current run_multi_device
    iterators,             \* items consumed from each iterator in this call
    iteration,             \* local `iteration`
    accumulator,           \* local `accumulator`: the contributions summed
    accumulation_current,  \* local `accumulation_current`
    lr,                    \* local `lr`
    item,                  \* local `item`
    items,                 \* results of step.step() not yet processed
    workers,               \* per-device worker of MultiDevicesTrainStep
    interrupted,           \* local `interrupted`
    steps,                 \* model.step invocations of this call
    events,                \* events given to the processor in this call
    optimized,             \* model.optimize invocations of this call
    polled                 \* values read from should_stop() in this call

vars == <<dataloader, valid_dataloader, epoch, valid_epoch, grad_accumulation,
          scheduler, should_stop, call, pc, runs, devices, iterators,
          iteration, accumulator, accumulation_current, lr, item, items,
          workers, interrupted, steps, events, optimized, polled>>

config == <<dataloader, valid_dataloader, valid_epoch, grad_accumulation>>
locals == <<iterators, iteration, accumulator, accumulation_current, lr, item,
            items, workers, interrupted>>

None == <<>>
Some(x) == <<x>>

Max(a, b) == IF a < b THEN b ELSE a

----------------------------------------------------------------------------
\* Events and logs.

ProcessedItem(it, e, n, rate) ==
    [type |-> "ProcessedItem", item |-> it, epoch |-> e, iteration |-> n,
     lr |-> rate]

EndEpoch(e) ==
    [type |-> "EndEpoch", item |-> <<>>, epoch |-> e, iteration |-> 0,
     lr |-> None]

\* model.optimize(&mut optim, lr, grads), called while processing item n.
Optimize(log, rate, grads, n) ==
    Append(log, [grads |-> grads, lr |-> rate, iteration |-> n])

\* GradientsAccumulator: accumulate adds one contribution to the running
\* sum, grads returns the sum and leaves the accumulator empty.
AccumulatorNew == <<>>
Accumulate(acc, grads) == acc \o grads
AccumulatorGrads(acc) == [grads |-> acc, accumulator |-> AccumulatorNew]

\* `accumulation <= accumulation_current` of TrainEpoch::run
TrainWindowReached_Strict(accumulation, current) == accumulation < current

TrainWindowReached(accumulation, current) == accumulation <= current

\* `accumulation <= accumulation_current` of TrainEpoch::run_multi_device
MultiWindowReached_Strict(accumulation, current) == accumulation < current

MultiWindowReached(accumulation, current) == accumulation <= current

\* `self.grad_accumulation.unwrap_or(1) * devices.len()`
EffectiveWindow_NoDevices(ga, n) == IF ga = None THEN 1 ELSE ga[1]

EffectiveWindow(ga, n) == (IF ga = None THEN 1 ELSE ga[1]) * n

----------------------------------------------------------------------------
Init ==
    /\ dataloader \in UNION {[1..n -> 0..MaxLen] : n \in 1..MaxDevices}
    /\ valid_dataloader = 0
    /\ epoch = 1
    /\ valid_epoch = 1
    /\ grad_accumulation \in {None} \cup {Some(w) : w \in 0..MaxWindow}
    /\ scheduler = 0
    /\ should_stop = FALSE
    /\ call = "none"
    /\ pc = "idle"
    /\ runs = 0
    /\ devices = 0
    /\ iterators = <<>>
    /\ iteration = 0
    /\ accumulator = AccumulatorNew
    /\ accumulation_current = 0
    /\ lr = 0
    /\ item = <<>>
    /\ items = <<>>
    /\ workers = <<>>
    /\ interrupted = FALSE
    /\ steps = 0
    /\ events = <<>>
    /\ optimized = <<>>
    /\ polled = <<>>

\* TrainingInterrupter::stop, called by an external controller at any time.
Stop ==
    /\ ~should_stop
    /\ should_stop' = TRUE
    /\ UNCHANGED <<config, epoch, scheduler, call, pc, runs, devices, locals,
                   steps, events, optimized, polled>>

CanCall == pc \in {"idle", "returned"} /\ runs < MaxRuns

\* The state every call starts from: fresh locals and empty logs.
Enter(fn, first, its) ==
    /\ call' = fn
    /\ pc' = first
    /\ runs' = runs + 1
    /\ iterators' = its
    /\ iteration' = 0
    /\ accumulator' = AccumulatorNew
    /\ accumulation_current' = 0
    /\ lr' = 0
    /\ item' = <<>>
    /\ items' = <<>>
    /\ workers' = <<>>
    /\ interrupted' = FALSE
    /\ steps' = 0
    /\ events' = <<>>
    /\ optimized' = <<>>
    /\ polled' = <<>>

----------------------------------------------------------------------------
\* ValidEpoch::run

\* Each validation call is made on a ValidEpoch of its own, as the training
\* loop builds one per epoch; its source is chosen here and is gone when the
\* next training call starts.
ValidStart ==
    /\ CanCall
    /\ \E n \in 0..MaxLen : valid_dataloader' = n
    /\ Enter("valid", "next", <<0>>)
    /\ devices' = 0
    /\ UNCHANGED <<dataloader, valid_epoch, grad_accumulation, epoch,
                   scheduler, should_stop>>

ValidNext_Scheduled ==
    /\ call = "valid" /\ pc = "next"
    /\ IF iterators[1] < valid_dataloader
       THEN /\ iterators' = <<iterators[1] + 1>>
            /\ item' = <<1, iterators[1] + 1>>
            /\ iteration' = iteration + 1
            /\ scheduler' = scheduler + 1
            /\ pc' = "step"
       ELSE /\ pc' = "end"
            /\ UNCHANGED <<iterators, item, iteration, scheduler>>
    /\ UNCHANGED <<config, epoch, should_stop, call, runs, devices,
                   accumulator, accumulation_current, lr, items, workers,
                   interrupted, steps, events, optimized, polled>>

ValidNext ==
    /\ call = "valid" /\ pc = "next"
    /\ IF iterators[1] < valid_dataloader
       THEN /\ iterators' = <<iterators[1] + 1>>
            /\ item' = <<1, iterators[1] + 1>>
            /\ iteration' = iteration + 1
            /\ pc' = "step"
       ELSE /\ pc' = "end"
            /\ UNCHANGED <<iterators, item, iteration>>
    /\ UNCHANGED <<config, epoch, scheduler, should_stop, call, runs, devices,
                   accumulator, accumulation_current, lr, items, workers,
                   interrupted, steps, events, optimized, polled>>

ValidStep ==
    /\ call = "valid" /\ pc = "step"
    /\ steps' = steps + 1
    /\ pc' = "emit"
    /\ UNCHANGED <<config, epoch, scheduler, should_stop, call, runs, devices,
                   locals, events, optimized, polled>>

ValidEmit ==
    /\ call = "valid" /\ pc = "emit"
    /\ events' = Append(events,
                        ProcessedItem(item, valid_epoch, iteration, None))
    /\ pc' = "poll"
    /\ UNCHANGED <<config, epoch, scheduler, should_stop, call, runs, devices,
                   locals, steps, optimized, polled>>

ValidPoll ==
    /\ call = "valid" /\ pc = "poll"
    /\ polled' = Append(polled, should_stop)
    /\ pc' = IF should_stop THEN "end" ELSE "next"
    /\ UNCHANGED <<config, epoch, scheduler, should_stop, call, runs, devices,
                   locals, steps, events, optimized>>

ValidEnd ==
    /\ call = "valid" /\ pc = "end"
    /\ events' = Append(events, EndEpoch(valid_epoch))
    /\ pc' = "returned"
    /\ UNCHANGED <<config, epoch, scheduler, should_stop, call, runs, devices,
                   locals, steps, optimized, polled>>

----------------------------------------------------------------------------
\* TrainEpoch::run

TrainStart_PollFirst ==
    /\ CanCall
    /\ Enter("train", IF should_stop THEN "end" ELSE "next", <<0>>)
    /\ devices' = 0
    /\ valid_dataloader' = 0
    /\ UNCHANGED <<dataloader, valid_epoch, grad_accumulation, epoch,
                   scheduler, should_stop>>

TrainStart ==
    /\ CanCall
    /\ Enter("train", "next", <<0>>)
    /\ devices' = 0
    /\ valid_dataloader' = 0
    /\ UNCHANGED <<dataloader, valid_epoch, grad_accumulation, epoch,
                   scheduler, should_stop>>

TrainNext ==
    /\ call = "train" /\ pc = "next"
    /\ IF iterators[1] < dataloader[1]
       THEN /\ iterators' = <<iterators[1] + 1>>
            /\ item' = <<1, iterators[1] + 1>>
            /\ pc' = "sched"
       ELSE /\ pc' = "end"
            /\ UNCHANGED <<iterators, item>>
    /\ UNCHANGED <<config, epoch, scheduler, should_stop, call, runs, devices,
                   iteration, accumulator, accumulation_current, lr, items,
                   workers, interrupted, steps, events, optimized, polled>>

TrainSched_StaleRate ==
    /\ call = "train" /\ pc = "sched"
    /\ iteration' = iteration + 1
    /\ scheduler' = scheduler + 1
    /\ lr' = scheduler
    /\ pc' = "step"
    /\ UNCHANGED <<config, epoch, should_stop, call, runs, devices, iterators,
                   accumulator, accumulation_current, item, items, workers,
                   interrupted, steps, events, optimized, polled>>

TrainSched ==
    /\ call = "train" /\ pc = "sched"
    /\ iteration' = iteration + 1
    /\ scheduler' = scheduler + 1
    /\ lr' = scheduler + 1
    /\ pc' = "step"
    /\ UNCHANGED <<config, epoch, should_stop, call, runs, devices, iterators,
                   accumulator, accumulation_current, item, items, workers,
                   interrupted, steps, events, optimized, polled>>

TrainStep ==
    /\ call = "train" /\ pc = "step"
    /\ steps' = steps + 1
    /\ pc' = "accum"
    /\ UNCHANGED <<config, epoch, scheduler, should_stop, call, runs, devices,
                   locals, events, optimized, polled>>

\* `None => model = model.optimize(&mut optim, lr, item.grads)`
TrainOptimizeItem_Accumulated ==
    /\ optimized' = Optimize(optimized, lr,
                             Accumulate(accumulator, <<item>>), iteration)
    /\ accumulator' = Accumulate(accumulator, <<item>>)
    /\ UNCHANGED accumulation_current

TrainOptimizeItem ==
    /\ optimized' = Optimize(optimized, lr, <<item>>, iteration)
    /\ UNCHANGED <<accumulator, accumulation_current>>

\* The `Some(accumulation)` arm.
TrainAccumulate(accumulation) ==
    LET acc == Accumulate(accumulator, <<item>>)
        cur == accumulation_current + 1
    IN  IF TrainWindowReached(accumulation, cur)
        THEN /\ optimized' = Optimize(optimized, lr,
                                      AccumulatorGrads(acc).grads, iteration)
             /\ accumulator' = AccumulatorGrads(acc).accumulator
             /\ accumulation_current' = 0
        ELSE /\ accumulator' = acc
             /\ accumulation_current' = cur
             /\ UNCHANGED optimized

TrainAccum ==
    /\ call = "train" /\ pc = "accum"
    /\ IF grad_accumulation # None
       THEN TrainAccumulate(grad_accumulation[1])
       ELSE TrainOptimizeItem
    /\ pc' = "emit"
    /\ UNCHANGED <<config, epoch, scheduler, should_stop, call, runs, devices,
                   iterators, iteration, lr, item, items, workers,
                   interrupted, steps, events, polled>>

TrainEmit ==
    /\ call = "train" /\ pc = "emit"
    /\ events' = Append(events,
                        ProcessedItem(item, epoch, iteration, Some(lr)))
    /\ pc' = "poll"
    /\ UNCHANGED <<config, epoch, scheduler, should_stop, call, runs, devices,
                   locals, steps, optimized, polled>>

TrainPoll_ReturnOnStop ==
    /\ call = "train" /\ pc = "poll"
    /\ polled' = Append(polled, should_stop)
    /\ pc' = IF should_stop THEN "incr" ELSE "next"
    /\ UNCHANGED <<config, epoch, scheduler, should_stop, call, runs, devices,
                   locals, steps, events, optimized>>

TrainPoll ==
    /\ call = "train" /\ pc = "poll"
    /\ polled' = Append(polled, should_stop)
    /\ pc' = IF should_stop THEN "end" ELSE "next"
    /\ UNCHANGED <<config, epoch, scheduler, should_stop, call, runs, devices,
                   locals, steps, events, optimized>>

TrainEnd ==
    /\ call = "train" /\ pc = "end"
    /\ events' = Append(events, EndEpoch(epoch))
    /\ pc' = "incr"
    /\ UNCHANGED <<config, epoch, scheduler, should_stop, call, runs, devices,
                   locals, steps, optimized, polled>>

TrainIncr ==
    /\ call = "train" /\ pc = "incr"
    /\ epoch' = epoch + 1
    /\ pc' = "returned"
    /\ UNCHANGED <<config, scheduler, should_stop, call, runs, devices,
                   locals, steps, events, optimized, polled>>

----------------------------------------------------------------------------
\* TrainEpoch::run_multi_device

MultiStart_NoExpect ==
    /\ CanCall
    /\ \E n \in {0, Len(dataloader)} :
          /\ devices' = n
          /\ Enter("multi", "dispatch", [d \in 1..Len(dataloader) |-> 0])
    /\ valid_dataloader' = 0
    /\ UNCHANGED <<dataloader, valid_epoch, grad_accumulation, epoch,
                   scheduler, should_stop>>

\* The locals are set up, then `devices.first().expect(..)` panics on an
\* empty device list.
MultiStart ==
    /\ CanCall
    /\ \E n \in {0, Len(dataloader)} :
          /\ devices' = n
          /\ Enter("multi", IF n = 0 THEN "panicked" ELSE "dispatch",
                   [d \in 1..Len(dataloader) |-> 0])
    /\ valid_dataloader' = 0
    /\ UNCHANGED <<dataloader, valid_epoch, grad_accumulation, epoch,
                   scheduler, should_stop>>

\* MultiDevicesTrainStep::step, first half: one item is pulled from every
\* iterator; a full set is registered with the workers, a ragged one is
\* dropped.
MultiDispatch ==
    /\ call = "multi" /\ pc = "dispatch"
    /\ LET has(d) == iterators[d] < dataloader[d]
           full == \A d \in 1..devices : has(d)
       IN  /\ iterators' = [d \in DOMAIN iterators |->
                              IF d <= devices /\ has(d)
                              THEN iterators[d] + 1 ELSE iterators[d]]
           /\ workers' = [d \in 1..devices |->
                            IF full THEN "running" ELSE "idle"]
    /\ pc' = "join"
    /\ UNCHANGED <<config, epoch, scheduler, should_stop, call, runs, devices,
                   iteration, accumulator, accumulation_current, lr, item,
                   items, interrupted, steps, events, optimized, polled>>

\* One worker runs model.step on its device; the workers finish in any order.
WorkerStep(d) ==
    /\ call = "multi" /\ pc = "join"
    /\ workers[d] = "running"
    /\ workers' = [workers EXCEPT ![d] = "done"]
    /\ steps' = steps + 1
    /\ UNCHANGED <<config, epoch, scheduler, should_stop, call, pc, runs,
                   devices, iterators, iteration, accumulator,
                   accumulation_current, lr, item, items, interrupted, events,
                   optimized, polled>>

\* MultiDevicesTrainStep::step, second half: all results are collected, in
\* device order, before the call returns.
MultiJoin ==
    /\ call = "multi" /\ pc = "join"
    /\ \A d \in 1..devices : workers[d] # "running"
    /\ items' = IF \A d \in 1..devices : workers[d] = "done"
                THEN [d \in 1..devices |-> <<d, iterators[d]>>]
                ELSE <<>>
    /\ workers' = [d \in 1..devices |-> "idle"]
    /\ pc' = "check"
    /\ UNCHANGED <<config, epoch, scheduler, should_stop, call, runs, devices,
                   iterators, iteration, accumulator, accumulation_current,
                   lr, item, interrupted, steps, events, optimized, polled>>

MultiCheck_Continue ==
    /\ call = "multi" /\ pc = "check"
    /\ pc' = IF items = <<>> THEN "dispatch" ELSE "sched"
    /\ UNCHANGED <<config, epoch, scheduler, should_stop, call, runs, devices,
                   locals, steps, events, optimized, polled>>

\* `if items.is_empty() { break; }`
MultiCheck ==
    /\ call = "multi" /\ pc = "check"
    /\ pc' = IF items = <<>> THEN "end" ELSE "sched"
    /\ UNCHANGED <<config, epoch, scheduler, should_stop, call, runs, devices,
                   locals, steps, events, optimized, polled>>

MultiSched_FromBack ==
    /\ call = "multi" /\ pc = "sched"
    /\ item' = items[Len(items)]
    /\ items' = SubSeq(items, 1, Len(items) - 1)
    /\ iteration' = iteration + 1
    /\ scheduler' = scheduler + 1
    /\ lr' = scheduler + 1
    /\ pc' = "accum"
    /\ UNCHANGED <<config, epoch, should_stop, call, runs, devices, iterators,
                   accumulator, accumulation_current, workers, interrupted,
                   steps, events, optimized, polled>>

MultiSched_PerDeviceIteration ==
    /\ call = "multi" /\ pc = "sched"
    /\ item' = Head(items)
    /\ items' = Tail(items)
    /\ iteration' = iterators[1]
    /\ scheduler' = scheduler + 1
    /\ lr' = scheduler + 1
    /\ pc' = "accum"
    /\ UNCHANGED <<config, epoch, should_stop, call, runs, devices, iterators,
                   accumulator, accumulation_current, workers, interrupted,
                   steps, events, optimized, polled>>

MultiSched ==
    /\ call = "multi" /\ pc = "sched"
    /\ item' = Head(items)
    /\ items' = Tail(items)
    /\ iteration' = iteration + 1
    /\ scheduler' = scheduler + 1
    /\ lr' = scheduler + 1
    /\ pc' = "accum"
    /\ UNCHANGED <<config, epoch, should_stop, call, runs, devices, iterators,
                   accumulator, accumulation_current, workers, interrupted,
                   steps, events, optimized, polled>>

\* accumulate, count, and flush when the effective window is reached.
MultiAccumulate_NoReset(accumulation) ==
    LET acc == Accumulate(accumulator, <<item>>)
        cur == accumulation_current + 1
    IN  IF MultiWindowReached(accumulation, cur)
        THEN /\ optimized' = Optimize(optimized, lr,
                                      AccumulatorGrads(acc).grads, iteration)
             /\ accumulator' = AccumulatorGrads(acc).accumulator
             /\ accumulation_current' = cur
        ELSE /\ accumulator' = acc
             /\ accumulation_current' = cur
             /\ UNCHANGED optimized

MultiAccumulate_ItemGrads(accumulation) ==
    LET acc == Accumulate(accumulator, <<item>>)
        cur == accumulation_current + 1
    IN  IF MultiWindowReached(accumulation, cur)
        THEN /\ optimized' = Optimize(optimized, lr, <<item>>, iteration)
             /\ accumulator' = AccumulatorGrads(acc).accumulator
             /\ accumulation_current' = 0
        ELSE /\ accumulator' = acc
             /\ accumulation_current' = cur
             /\ UNCHANGED optimized

MultiAccumulate(accumulation) ==
    LET acc == Accumulate(accumulator, <<item>>)
        cur == accumulation_current + 1
    IN  IF MultiWindowReached(accumulation, cur)
        THEN /\ optimized' = Optimize(optimized, lr,
                                      AccumulatorGrads(acc).grads, iteration)
             /\ accumulator' = AccumulatorGrads(acc).accumulator
             /\ accumulation_current' = 0
        ELSE /\ accumulator' = acc
             /\ accumulation_current' = cur
             /\ UNCHANGED optimized

MultiAccum ==
    /\ call = "multi" /\ pc = "accum"
    /\ MultiAccumulate(EffectiveWindow(grad_accumulation, devices))
    /\ pc' = "emit"
    /\ UNCHANGED <<config, epoch, scheduler, should_stop, call, runs, devices,
                   iterators, iteration, lr, item, items, workers,
                   interrupted, steps, events, polled>>

MultiEmit ==
    /\ call = "multi" /\ pc = "emit"
    /\ events' = Append(events,
                        ProcessedItem(item, epoch, iteration, Some(lr)))
    /\ pc' = "poll"
    /\ UNCHANGED <<config, epoch, scheduler, should_stop, call, runs, devices,
                   locals, steps, optimized, polled>>

MultiPoll_FinishIteration ==
    /\ call = "multi" /\ pc = "poll"
    /\ polled' = Append(polled, should_stop)
    /\ interrupted' = (interrupted \/ should_stop)
    /\ pc' = IF items = <<>> THEN "after" ELSE "sched"
    /\ UNCHANGED <<config, epoch, scheduler, should_stop, call, runs, devices,
                   iterators, iteration, accumulator, accumulation_current,
                   lr, item, items, workers, steps, events, optimized>>

MultiPoll_BreakAlways ==
    /\ call = "multi" /\ pc = "poll"
    /\ polled' = Append(polled, should_stop)
    /\ interrupted' = (interrupted \/ should_stop)
    /\ pc' = "after"
    /\ UNCHANGED <<config, epoch, scheduler, should_stop, call, runs, devices,
                   iterators, iteration, accumulator, accumulation_current,
                   lr, item, items, workers, steps, events, optimized>>

MultiPoll_InnerBreakOnly ==
    /\ call = "multi" /\ pc = "poll"
    /\ polled' = Append(polled, should_stop)
    /\ interrupted' = interrupted
    /\ pc' = IF should_stop \/ items = <<>> THEN "after" ELSE "sched"
    /\ UNCHANGED <<config, epoch, scheduler, should_stop, call, runs, devices,
                   iterators, iteration, accumulator, accumulation_current,
                   lr, item, items, workers, steps, events, optimized>>

\* The poll inside `for item in items`; the loop ends on a raised flag or
\* with the last item.
MultiPoll ==
    /\ call = "multi" /\ pc = "poll"
    /\ polled' = Append(polled, should_stop)
    /\ interrupted' = (interrupted \/ should_stop)
    /\ pc' = IF should_stop \/ items = <<>> THEN "after" ELSE "sched"
    /\ UNCHANGED <<config, epoch, scheduler, should_stop, call, runs, devices,
                   iterators, iteration, accumulator, accumulation_current,
                   lr, item, items, workers, steps, events, optimized>>

MultiAfter_Inverted ==
    /\ call = "multi" /\ pc = "after"
    /\ pc' = IF ~interrupted THEN "end" ELSE "dispatch"
    /\ UNCHANGED <<config, epoch, scheduler, should_stop, call, runs, devices,
                   locals, steps, events, optimized, polled>>

\* `if interrupted { break; }`
MultiAfter ==
    /\ call = "multi" /\ pc = "after"
    /\ pc' = IF interrupted THEN "end" ELSE "dispatch"
    /\ UNCHANGED <<config, epoch, scheduler, should_stop, call, runs, devices,
                   locals, steps, events, optimized, polled>>

MultiEnd ==
    /\ call = "multi" /\ pc = "end"
    /\ events' = Append(events, EndEpoch(epoch))
    /\ pc' = "incr"
    /\ UNCHANGED <<config, epoch, scheduler, should_stop, call, runs, devices,
                   locals, steps, optimized, polled>>

MultiIncr_UnlessInterrupted ==
    /\ call = "multi" /\ pc = "incr"
    /\ epoch' = IF interrupted THEN epoch ELSE epoch + 1
    /\ pc' = "returned"
    /\ UNCHANGED <<config, scheduler, should_stop, call, runs, devices,
                   locals, steps, events, optimized, polled>>

MultiIncr ==
    /\ call = "multi" /\ pc = "incr"
    /\ epoch' = epoch + 1
    /\ pc' = "returned"
    /\ UNCHANGED <<config, scheduler, should_stop, call, runs, devices,
                   locals, steps, events, optimized, polled>>

----------------------------------------------------------------------------
Next ==
    \/ Stop
    \/ ValidStart \/ ValidNext \/ ValidStep \/ ValidEmit \/ ValidPoll
    \/ ValidEnd
    \/ TrainStart \/ TrainNext \/ TrainSched \/ TrainStep \/ TrainAccum
    \/ TrainEmit \/ TrainPoll \/ TrainEnd \/ TrainIncr
    \/ MultiStart \/ MultiDispatch
    \/ (\E d \in 1..MaxDevices : d <= devices /\ WorkerStep(d))
    \/ MultiJoin \/ MultiCheck \/ MultiSched \/ MultiAccum \/ MultiEmit
    \/ MultiPoll \/ MultiAfter \/ MultiEnd \/ MultiIncr

Spec == Init /\ [][Next]_vars

\* The steps of a call in progress.  The thread that made the call keeps
\* executing it and every model step given to a worker terminates, so a call
\* in progress always takes its next step; nothing obliges the caller to
\* start a call or the controller to raise the token.
Run ==
    \/ ValidNext \/ ValidStep \/ ValidEmit \/ ValidPoll \/ ValidEnd
    \/ TrainNext \/ TrainSched \/ TrainStep \/ TrainAccum \/ TrainEmit
    \/ TrainPoll \/ TrainEnd \/ TrainIncr
    \/ MultiDispatch
    \/ (\E d \in 1..MaxDevices : d <= devices /\ WorkerStep(d))
    \/ MultiJoin \/ MultiCheck \/ MultiSched \/ MultiAccum \/ MultiEmit
    \/ MultiPoll \/ MultiAfter \/ MultiEnd \/ MultiIncr

LiveSpec == Spec /\ WF_vars(Run)

----------------------------------------------------------------------------
\* Vocabulary of the properties.

IsTrain == call = "train"
IsMulti == call = "multi" /\ devices >= 1

\* The ProcessedItem events of the current call, in emission order.
Processed == SelectSeq(events, LAMBDA e : e.type = "ProcessedItem")

\* Items of the current call that have been through the accumulation
\* decision (the item in hand has been numbered but not yet decided on
\* while the runner is at the model step or at the decision itself).
Accumulated == IF pc \in {"step", "accum"} THEN iteration - 1 ELSE iteration

\* No poll of the current call has read a raised token.
Uninterrupted == \A k \in 1..Len(polled) : ~polled[k]

LastEvent == events[Len(events)]

\* Iteration number of the update before the j-th one, 0 for the first.
PrevUpdate(j) == IF j = 1 THEN 0 ELSE optimized[j - 1].iteration
LastUpdate == IF optimized = <<>> THEN 0
              ELSE optimized[Len(optimized)].iteration

\* Length of the shortest source used by the current multi-device call.
MinLen == CHOOSE m \in {dataloader[d] : d \in 1..devices} :
              \A d \in 1..devices : m <= dataloader[d]

----------------------------------------------------------------------------
\* C1: in TrainEpoch::run without an accumulation window, the optimizer has
\* been updated once for every item that went through the accumulation
\* decision, every emitted item has had its update, and the i-th update was
\* made while processing item i with the gradients of item i alone.
C1_OneUpdatePerItem ==
    (IsTrain /\ grad_accumulation = None) =>
        /\ Len(optimized) = Accumulated
        /\ Len(Processed) <= Len(optimized)
        /\ pc \notin {"step", "accum", "emit"} =>
               Len(Processed) = Len(optimized)
        /\ \A i \in 1..Len(optimized) :
               /\ optimized[i].iteration = i
               /\ optimized[i].grads = << <<1, i>> >>
        /\ \A i \in 1..Len(Processed) :
               optimized[i].grads = <<Processed[i].item>>

C1_Witness ==
    /\ IsTrain /\ grad_accumulation = None /\ pc = "returned"
    /\ Len(Processed) = 3 /\ Len(optimized) = 3

\* C2 as stated: in run_multi_device without an accumulation window the
\* optimizer is updated once per processed item; 2 devices with 3 items each
\* give 6 updates.
C2_OneUpdatePerItemMulti ==
    (IsMulti /\ grad_accumulation = None) =>
        /\ Len(optimized) = Accumulated
        /\ (devices = 2 /\ dataloader = <<3, 3>> /\ pc = "returned"
            /\ Uninterrupted) => Len(optimized) = 6

\* C2 amended: in run_multi_device without an accumulation window the
\* optimizer is updated once per D processed items, at every item whose
\* iteration number is a multiple of the device count D; 2 devices with 3
\* items each give 3 updates in an uninterrupted run.
C2_OneUpdatePerDeviceRound ==
    (IsMulti /\ grad_accumulation = None) =>
        /\ Len(optimized) = Accumulated \div devices
        /\ \A j \in 1..Len(optimized) : optimized[j].iteration = j * devices
        /\ (devices = 2 /\ dataloader = <<3, 3>> /\ pc = "returned"
            /\ Uninterrupted) => Len(optimized) = 3

C2_Witness ==
    /\ IsMulti /\ grad_accumulation = None /\ pc = "returned"
    /\ devices = 2 /\ dataloader = <<3, 3>> /\ Uninterrupted
    /\ Len(Processed) = 6 /\ Len(optimized) = 3

\* C3: in TrainEpoch::run with window W >= 1, in every call, the optimizer
\* updates are exactly the items whose iteration number within the call is a
\* multiple of W: the j-th update is made at item j * W, there are as many
\* updates as full windows among the items decided on, and what remains
\* accumulated is fewer than W items, never flushed by the end of the call
\* and absent at the start of the next one.
C3_UpdatesAtMultiplesOfWindow ==
    (IsTrain /\ grad_accumulation # None /\ grad_accumulation[1] >= 1) =>
        LET W == grad_accumulation[1]
        IN  /\ Len(optimized) = Accumulated \div W
            /\ \A j \in 1..Len(optimized) : optimized[j].iteration = j * W
            /\ accumulation_current = Accumulated % W
            /\ Len(accumulator) = Accumulated % W
            /\ iteration = 0 => accumulator = <<>>

C3_Witness ==
    /\ IsTrain /\ grad_accumulation = Some(2) /\ pc = "returned"
    /\ runs = 2 /\ scheduler = 6
    /\ Len(Processed) = 3 /\ Len(optimized) = 1
    /\ optimized[1].iteration = 2 /\ Len(accumulator) = 1

\* C4 as stated: in run_multi_device every optimizer update happens when
\* the number of items since the last update is E = W x D (W the configured
\* window, 1 when none), and a positive number of items since the last
\* update is below E.
C4_UpdateAtConfiguredEffectiveWindow ==
    IsMulti =>
        LET E == (IF grad_accumulation = None THEN 1
                  ELSE grad_accumulation[1]) * devices
        IN  /\ \A j \in 1..Len(optimized) :
                   optimized[j].iteration - PrevUpdate(j) = E
            /\ Accumulated - LastUpdate > 0 => Accumulated - LastUpdate < E

\* C4 amended: in run_multi_device with D >= 1 devices the optimizer is
\* updated exactly when the number of items processed since the last update
\* reaches E = max(W x D, 1), W being the configured window or 1 when none
\* is configured (with a configured window of 0 every item is an update);
\* no update happens on any other item and a remainder of fewer than E items
\* at the end of the run is not flushed.
C4_UpdateAtEffectiveWindow ==
    IsMulti =>
        LET E == Max((IF grad_accumulation = None THEN 1
                      ELSE grad_accumulation[1]) * devices, 1)
        IN  /\ \A j \in 1..Len(optimized) :
                   optimized[j].iteration - PrevUpdate(j) = E
            /\ Accumulated - LastUpdate < E
            /\ Len(optimized) = Accumulated \div E

C4_Witness ==
    /\ IsMulti /\ grad_accumulation = Some(2) /\ pc = "returned"
    /\ devices = 2 /\ dataloader = <<3, 3>> /\ Uninterrupted
    /\ Len(Processed) = 6 /\ Len(optimized) = 1
    /\ optimized[1].iteration = 4

\* C5: in every call of the three runners the i-th ProcessedItem event
\* carries iteration number i, so the numbers are 1, 2, 3, ... in emission
\* order, one per item, starting again at 1 in each call.
C5_IterationNumbers ==
    /\ \A i \in 1..Len(Processed) : Processed[i].iteration = i
    /\ call \in {"valid", "train", "multi"} =>
           Len(Processed) \in {iteration - 1, iteration}

C5_Witness ==
    /\ IsMulti /\ devices = 2 /\ runs = 2 /\ pc = "returned"
    /\ Len(Processed) = 4 /\ Processed[4].iteration = 4
    /\ scheduler > 4

\* C6: an EndEpoch event is never followed by another event, and a call that
\* has returned (or has reached the epoch increment) has emitted one as its
\* last event: exactly one EndEpoch per returned call.
C6_EndEpochOnceAndLast ==
    /\ \A i \in 1..Len(events) :
           events[i].type = "EndEpoch" => i = Len(events)
    /\ pc \in {"incr", "returned"} =>
           /\ events # <<>>
           /\ LastEvent.type = "EndEpoch"

C6_Witness ==
    /\ IsTrain /\ pc = "returned"
    /\ polled = <<FALSE, TRUE>>
    /\ dataloader[1] = 3
    /\ Len(events) = 3 /\ LastEvent.type = "EndEpoch"

\* C7: the k-th poll of a call follows the k-th ProcessedItem event; if it
\* reads the token raised, item k stays the last item emitted in the call,
\* the runner only moves on to its exit, and once it is past the loop the
\* last event is the EndEpoch of the epoch the items were reported for.
C7_NoItemAfterCancel ==
    /\ Len(polled) <= Len(Processed)
    /\ \A k \in 1..Len(polled) :
           polled[k] =>
               /\ Len(Processed) = k
               /\ pc \in {"after", "end", "incr", "returned"}
               /\ pc \in {"incr", "returned"} =>
                      /\ LastEvent.type = "EndEpoch"
                      /\ LastEvent.epoch = Processed[k].epoch

C7_Witness ==
    /\ IsMulti /\ devices = 2 /\ pc = "returned"
    /\ polled = <<TRUE>> /\ Len(items) = 1
    /\ Len(Processed) = 1 /\ LastEvent.type = "EndEpoch"

\* C8: a run_multi_device call only ever handles full iterations: what the
\* dispatcher returns is empty or has one item per device, no item beyond the
\* length of the shortest source is numbered, accumulated, used in an update
\* or emitted, and an uninterrupted call that is past its loop has processed
\* exactly D x (shortest length) items, which is D x N for equal lengths N.
C8_FullIterationsOnly ==
    IsMulti =>
        /\ (pc \in {"end", "incr", "returned"} /\ Uninterrupted) =>
               Len(Processed) = devices * MinLen
        /\ iteration <= devices * MinLen
        /\ pc = "check" => Len(items) \in {0, devices}
        /\ item # <<>> => item[2] <= MinLen
        /\ \A i \in 1..Len(Processed) : Processed[i].item[2] <= MinLen
        /\ \A i \in 1..Len(accumulator) : accumulator[i][2] <= MinLen
        /\ \A j \in 1..Len(optimized) :
               \A i \in 1..Len(optimized[j].grads) :
                   optimized[j].grads[i][2] <= MinLen

C8_Witness ==
    /\ IsMulti /\ devices = 2 /\ pc = "returned" /\ Uninterrupted
    /\ dataloader = <<3, 2>>
    /\ iterators = <<3, 2>>
    /\ Len(Processed) = 4

\* C9: every event of a training call carries the epoch index the call
\* started with; the index changes only in the step that follows the
\* EndEpoch event, by exactly 1, and that step is the way every training
\* call returns.
C9_EventsCarryEpoch ==
    call \in {"train", "multi"} =>
        \A i \in 1..Len(events) :
            events[i].epoch = IF pc = "returned" THEN epoch - 1 ELSE epoch

C9_EpochStep ==
    /\ epoch' # epoch =>
           /\ epoch' = epoch + 1
           /\ call \in {"train", "multi"} /\ pc = "incr" /\ pc' = "returned"
           /\ events # <<>> /\ LastEvent.type = "EndEpoch"
           /\ events' = events
    /\ (call \in {"train", "multi"} /\ pc # "returned" /\ pc' = "returned") =>
           epoch' = epoch + 1

C9_EpochIncrementedOncePerCall == []C9_EventsCarryEpoch /\ [][C9_EpochStep]_vars

C9_Witness ==
    /\ IsMulti /\ pc = "returned" /\ interrupted
    /\ runs = 2 /\ epoch = 3
    /\ LastEvent = EndEpoch(2)

\* C10: a run_multi_device call with an empty device list stops in the
\* panic of `expect` with nothing fetched, no model step run, nothing
\* numbered, no event emitted, no optimizer update and no poll, and entering
\* it changes neither the scheduler nor the epoch index.
C10_NothingDone ==
    (call = "multi" /\ devices = 0) =>
        /\ pc = "panicked"
        /\ \A d \in DOMAIN iterators : iterators[d] = 0
        /\ steps = 0
        /\ iteration = 0
        /\ events = <<>>
        /\ optimized = <<>>
        /\ polled = <<>>

C10_EntryFrame ==
    (call' = "multi" /\ devices' = 0) =>
        /\ scheduler' = scheduler
        /\ epoch' = epoch

C10_EmptyDevicesRejected == []C10_NothingDone /\ [][C10_EntryFrame]_vars

C10_Witness ==
    /\ call = "multi" /\ devices = 0 /\ pc = "panicked"
    /\ runs = 2 /\ scheduler > 0 /\ epoch = 2

----------------------------------------------------------------------------
\* Vocabulary of the properties on order and content.

\* The window the current training call flushes at: the configured one in
\* TrainEpoch::run (1 when none: every item is an update), the effective one
\* in run_multi_device; a window of 0 flushes on every item, as 1 does.
Window ==
    Max(IF call = "multi" THEN EffectiveWindow(grad_accumulation, devices)
        ELSE IF grad_accumulation = None THEN 1 ELSE grad_accumulation[1], 1)

\* Accumulation decisions made in the current training call, read off the
\* update log and the counter.
Decided == Len(optimized) * Window + accumulation_current

\* The rate the scheduler returned in iteration n of the current call.
RateOf(n) == scheduler - iteration + n

\* C11: in TrainEpoch::run the scheduler, the model step, the accumulation
\* decision, the emission and the poll of one iteration happen in that order,
\* once each: their counts within the call form a descending chain that spans
\* at most one, and the position is the first stage behind.  The scheduler
\* moves once per iteration, so the rate of iteration n is its value n steps
\* after the call began; that rate is in the Learner Item of iteration n and
\* in the optimizer update made in iteration n.
C11_ScheduleThenStepThenUpdate ==
    IsTrain =>
        /\ iteration >= steps /\ steps >= Decided
        /\ Decided >= Len(Processed) /\ Len(Processed) >= Len(polled)
        /\ Len(polled) >= iteration - 1
        /\ pc = "step" <=> (iteration = steps + 1)
        /\ pc = "accum" <=> (iteration = steps /\ steps = Decided + 1)
        /\ pc = "emit" <=>
               (iteration = Decided /\ Decided = Len(Processed) + 1)
        /\ pc = "poll" <=>
               (iteration = Len(Processed)
                /\ Len(Processed) = Len(polled) + 1)
        /\ iteration >= 1 => lr = scheduler
        /\ \A n \in 1..Len(Processed) : Processed[n].lr = Some(RateOf(n))
        /\ \A j \in 1..Len(optimized) :
               optimized[j].lr = RateOf(optimized[j].iteration)

C11_Witness ==
    /\ IsTrain /\ pc = "poll" /\ grad_accumulation = Some(2)
    /\ runs = 2 /\ iteration = 2 /\ scheduler = 5
    /\ Processed[2].lr = Some(5) /\ optimized[1].lr = 5

\* C12: a ValidEpoch::run call makes no optimizer update, accumulates
\* nothing, and emits only Learner Items without a learning rate, for the
\* epoch of the ValidEpoch; entering it and every step taken in it leave the
\* scheduler, the epoch index of the training runner, the epoch of the
\* ValidEpoch and the training configuration as they were.
C12_NoTrainingEffect ==
    call = "valid" =>
        /\ optimized = <<>>
        /\ accumulator = AccumulatorNew
        /\ accumulation_current = 0
        /\ \A i \in 1..Len(events) :
               /\ events[i].lr = None
               /\ events[i].epoch = valid_epoch

C12_Frame ==
    call' = "valid" =>
        /\ scheduler' = scheduler
        /\ epoch' = epoch
        /\ valid_epoch' = valid_epoch
        /\ dataloader' = dataloader
        /\ grad_accumulation' = grad_accumulation
        /\ (call = "valid" /\ runs' = runs) =>
               valid_dataloader' = valid_dataloader

C12_ValidRunIsReadOnly == []C12_NoTrainingEffect /\ [][C12_Frame]_vars

C12_Witness ==
    /\ call = "valid" /\ pc = "returned"
    /\ runs = 2 /\ epoch = 2 /\ scheduler = 3
    /\ Len(Processed) = 3 /\ Processed[3].lr = None

\* The window as configured: the value of grad_accumulation in
\* TrainEpoch::run, the effective window in run_multi_device.
HasWindow == (IsTrain /\ grad_accumulation # None) \/ IsMulti
ConfiguredWindow ==
    IF call = "multi" THEN EffectiveWindow(grad_accumulation, devices)
    ELSE grad_accumulation[1]

\* C13 as stated: for every configured (effective) window, 0 included, the
\* accumulation counter never exceeds the window and is strictly below it at
\* every ProcessedItem emission.
C13_CounterBelowAnyWindow ==
    HasWindow =>
        /\ accumulation_current <= ConfiguredWindow
        /\ pc = "emit" => accumulation_current < ConfiguredWindow

\* C13 amended: in both training runners, for every configured (effective)
\* window of at least 1 the accumulation counter is strictly below the window
\* in every state outside the accumulation step, so it never exceeds the
\* window and is below it at every ProcessedItem emission; the flush and the
\* reset happen in the iteration that reaches the window, the counter being
\* the number of items decided on modulo the window.  With a window of 0
\* every item flushes and the counter is 0 at every emission, which is the
\* window and not below it.
C13_CounterBelowPositiveWindow ==
    HasWindow =>
        /\ ConfiguredWindow >= 1 =>
               /\ accumulation_current < ConfiguredWindow
               /\ accumulation_current = Accumulated % ConfiguredWindow
               /\ Len(optimized) = Accumulated \div ConfiguredWindow
        /\ ConfiguredWindow = 0 =>
               /\ accumulation_current = 0
               /\ Len(optimized) = Accumulated

C13_Witness ==
    /\ IsTrain /\ grad_accumulation = Some(2) /\ pc = "emit"
    /\ iteration = 2 /\ accumulation_current = 0
    /\ Len(optimized) = 1 /\ Len(Processed) = 1

\* The item numbered n in the current call: the one of the n-th event, or
\* the item in hand when its event is still to come.
ItemAt(n) == IF n <= Len(Processed) THEN Processed[n].item ELSE item

\* Items e*(j-1)+1 .. e*j of the current call, in order.
WindowItems(j, e) == [k \in 1..e |-> ItemAt((j - 1) * e + k)]

\* C14 as stated: with the configured (effective) window W the j-th
\* optimizer update receives the contributions of items (j-1)*W+1 .. j*W.
C14_UpdateSumsConfiguredWindow ==
    HasWindow =>
        \A j \in 1..Len(optimized) :
            optimized[j].grads = WindowItems(j, ConfiguredWindow)

\* C14 amended: with E the configured (effective) window, or 1 when that is
\* 0, the j-th optimizer update receives exactly the contributions of items
\* (j-1)*E+1 .. j*E, once each; the running sum holds exactly the items
\* decided on since the last update, so it is empty right after a flush; the
\* items are all different, so no contribution enters two updates.
C14_UpdateSumsItsWindow ==
    HasWindow =>
        /\ \A j \in 1..Len(optimized) :
               optimized[j].grads = WindowItems(j, Window)
        /\ accumulator = [k \in 1..accumulation_current |->
                              ItemAt(Len(optimized) * Window + k)]
        /\ (optimized # <<>> /\ LastUpdate = Accumulated) =>
               accumulator = AccumulatorNew
        /\ \A m, n \in 1..Decided : m < n => ItemAt(m) # ItemAt(n)

C14_Witness ==
    /\ IsMulti /\ devices = 2 /\ grad_accumulation = Some(1)
    /\ dataloader = <<2, 2>> /\ pc = "returned"
    /\ Len(optimized) = 2
    /\ optimized[2].grads = << <<1, 2>>, <<2, 2>> >>
    /\ accumulator = AccumulatorNew

\* C15: once a poll of run_multi_device has read the token raised, the call
\* is on its way out and stays where the polled item left it: that item is
\* the last one numbered, decided on and emitted, the scheduler is at the
\* rate of that item, the results of the iteration that come after it are
\* still unprocessed although every device has fetched and computed its item
\* of that iteration, and no later iteration has been fetched or dispatched.
C15_RestOfIterationDropped ==
    (IsMulti /\ polled # <<>> /\ polled[Len(polled)]) =>
        /\ interrupted
        /\ pc \in {"after", "end", "incr", "returned"}
        /\ iteration = Len(polled)
        /\ Decided = Len(polled)
        /\ Len(Processed) = Len(polled)
        /\ LastUpdate <= Len(polled)
        /\ Processed[Len(polled)].lr = Some(scheduler)
        /\ Processed[Len(polled)].item = item
        /\ Len(items) = devices - item[1]
        /\ \A d \in 1..devices :
               /\ iterators[d] = item[2]
               /\ workers[d] = "idle"
        /\ steps = devices * item[2]

C15_Witness ==
    /\ IsMulti /\ devices = 2 /\ pc = "returned"
    /\ polled = <<FALSE, FALSE, TRUE>>
    /\ item = <<1, 2>> /\ items = << <<2, 2>> >>
    /\ steps = 4 /\ iteration = 3 /\ Len(Processed) = 3

\* The item that device order gives number n in a multi-device call: the
\* items of one iteration follow each other, device 1 first.
DeviceItem(n) == <<((n - 1) % devices) + 1, ((n - 1) \div devices) + 1>>

\* C16: in run_multi_device the n-th item numbered, given a rate,
\* accumulated and emitted is the item device order assigns to n, whatever
\* the state of the workers: event n carries that item, number n and the
\* n-th rate drawn in the call, the item in hand is the one of the current
\* number, the results still to process are those of the remaining devices
\* in order, and the contributions in the updates and in the running sum are
\* in the same order.  The event sequence is thus a function of the inputs.
C16_DeviceOrder ==
    IsMulti =>
        /\ \A n \in 1..Len(Processed) :
               Processed[n] =
                   ProcessedItem(DeviceItem(n),
                                 IF pc = "returned" THEN epoch - 1 ELSE epoch,
                                 n, Some(RateOf(n)))
        /\ pc \in {"accum", "emit", "poll"} => item = DeviceItem(iteration)
        /\ \A k \in 1..Len(items) :
               items[k] = <<devices - Len(items) + k, iterators[1]>>
        /\ \A j \in 1..Len(optimized) :
               \A k \in 1..Len(optimized[j].grads) :
                   optimized[j].grads[k] = DeviceItem((j - 1) * Window + k)
        /\ \A k \in 1..Len(accumulator) :
               accumulator[k] = DeviceItem(Len(optimized) * Window + k)

C16_Witness ==
    /\ IsMulti /\ devices = 2 /\ pc = "join"
    /\ workers = <<"running", "done">>
    /\ iterators = <<2, 2>>
    /\ Len(Processed) = 2
    /\ Processed[1].item = <<1, 1>> /\ Processed[2].item = <<2, 1>>

\* C17: in run_multi_device, while a worker of the dispatcher is busy or
\* holds a result not yet handed back, the runner waits in step.step(): it
\* holds no result, and everything numbered, decided on, emitted and polled so
\* far is exactly the items of the earlier iterations, so nothing of the
\* iteration in flight has been touched, no update is made meanwhile, and
\* the iteration in flight began after the one before it was processed in
\* full.  Outside step.step() every model step started has returned, and the
\* items numbered belong to iterations whose steps have all returned.
C17_ForkJoinBarrier ==
    IsMulti =>
        /\ (\E d \in DOMAIN workers : workers[d] # "idle") =>
               /\ pc = "join"
               /\ items = <<>>
               /\ \A d \in 1..devices : iterators[d] = iterators[1]
               /\ iteration = devices * (iterators[1] - 1)
               /\ Decided = iteration
               /\ Len(Processed) = iteration
               /\ Len(polled) = iteration
               /\ LastUpdate <= iteration
        /\ pc # "join" => steps % devices = 0
        /\ iteration <= devices * (steps \div devices)

C17_Witness ==
    /\ IsMulti /\ devices = 2 /\ pc = "join"
    /\ workers = <<"done", "running">>
    /\ iterators = <<2, 2>> /\ steps = 3
    /\ iteration = 2 /\ Len(Processed) = 2 /\ Len(optimized) = 1

\* C18: under LiveSpec every call in progress (a run_multi_device call with
\* an empty device list has panicked and is not in progress) leads to a
\* state where it has returned with EndEpoch as its last event, whether the
\* token is raised at some point or never.
InProgress == pc \notin {"idle", "returned", "panicked"}

C18_EveryCallReturns ==
    InProgress ~> (pc = "returned" /\ LastEvent.type = "EndEpoch")

C18_Witness ==
    /\ IsMulti /\ devices = 2 /\ pc = "returned" /\ ~should_stop
    /\ dataloader = <<3, 3>> /\ Len(polled) = 6
    /\ LastEvent.type = "EndEpoch"

\* The sources the current call reads, and whether it has nothing to process.
Sources == IF call = "multi" THEN devices ELSE 1
SourceEmpty ==
    CASE call = "valid" -> valid_dataloader = 0
      [] call = "train" -> dataloader[1] = 0
      [] OTHER -> MinLen = 0

\* C19: in the three runners a poll is made only after the emission of an
\* item, so never before the first fetch.  When the first poll reads the
\* token raised (as it does when the call starts with the token raised), the
\* call has fetched one item from every source it reads and stepped each,
\* has numbered, scheduled, decided on and emitted exactly the first item,
\* the scheduler has not moved since, and the call returns with that event
\* followed by EndEpoch.  A returned call has emitted no ProcessedItem exactly
\* when it had nothing to process.
C19_PollOnlyAfterItem ==
    (call \in {"valid", "train"} \/ IsMulti) =>
        /\ Len(polled) <= Len(Processed)
        /\ (polled # <<>> /\ polled[1]) =>
               /\ Len(polled) = 1
               /\ Len(Processed) = 1
               /\ iteration = 1
               /\ steps = Sources
               /\ \A d \in 1..Sources : iterators[d] = 1
               /\ call # "valid" =>
                      /\ Decided = 1
                      /\ Processed[1].lr = Some(scheduler)
               /\ pc = "returned" =>
                      /\ Len(events) = 2
                      /\ events[2].type = "EndEpoch"
        /\ pc = "returned" => (Len(Processed) = 0 <=> SourceEmpty)

C19_Witness ==
    /\ IsTrain /\ pc = "returned" /\ dataloader = <<3>>
    /\ runs = 2 /\ epoch = 3 /\ scheduler = 2
    /\ polled = <<TRUE>> /\ steps = 1 /\ Len(events) = 2

\* What a training call on one source leaves behind when it processes n
\* items of device 1 with window w, entered in epoch e with the scheduler
\* at s: the events, the optimizer updates, the scheduler and the epoch.
SingleSourceEvents(n, e, s) ==
    [k \in 1..n |-> ProcessedItem(<<1, k>>, e, k, Some(s + k))]
        \o <<EndEpoch(e)>>
SingleSourceUpdates(n, w, s) ==
    [j \in 1..(n \div w) |->
        [grads |-> [k \in 1..w |-> <<1, (j - 1) * w + k>>],
         lr |-> s + j * w, iteration |-> j * w]]

\* The window of a single-source call as a function of the setting alone.
SettingWindow ==
    Max(IF grad_accumulation = None THEN 1 ELSE grad_accumulation[1], 1)

\* The number of items a single-source call processes, from the source and
\* the poll results: all of them, or up to the first poll that read the
\* token raised.
SingleSourceItems == IF Uninterrupted THEN dataloader[1] ELSE Len(polled)

OnOneSource == IsTrain \/ (IsMulti /\ devices = 1)

\* C20: a returned call of TrainEpoch::run and a returned call of
\* run_multi_device with one device have the same outcome as a function of
\* the source, the window setting, the poll results, the epoch and the
\* scheduler at entry: the same events with the same items, numbers, rates
\* and epoch, the same optimizer updates with the same contributions, rate
\* and position, the same number of scheduler advances and the same epoch
\* index at return.  The function does not mention the runner.
C20_SameOutcome ==
    (OnOneSource /\ pc = "returned") =>
        LET n == SingleSourceItems
            s == scheduler - iteration
        IN  /\ iteration = n
            /\ Len(polled) = n
            /\ \A k \in 1..Len(polled) : polled[k] => k = n
            /\ events = SingleSourceEvents(n, epoch - 1, s)
            /\ optimized = SingleSourceUpdates(n, SettingWindow, s)

\* Entering either call leaves the scheduler and the epoch index as they
\* are and starts the numbering at 0; within the call the scheduler advances
\* exactly when the numbering does, and the epoch index moves only in the
\* step that returns, by one.
C20_Advances ==
    (call' = "train" \/ (call' = "multi" /\ devices' = 1)) =>
        IF runs' # runs
        THEN scheduler' = scheduler /\ epoch' = epoch /\ iteration' = 0
        ELSE /\ scheduler' - iteration' = scheduler - iteration
             /\ epoch' = IF pc # "returned" /\ pc' = "returned"
                         THEN epoch + 1 ELSE epoch

C20_OneDeviceAsSingleDevice == []C20_SameOutcome /\ [][C20_Advances]_vars

C20_Witness ==
    /\ IsMulti /\ devices = 1 /\ pc = "returned"
    /\ dataloader = <<3>> /\ grad_accumulation = Some(2)
    /\ runs = 2 /\ epoch = 3 /\ scheduler = 6
    /\ polled = <<FALSE, FALSE, FALSE>>
    /\ Len(Processed) = 3 /\ Len(optimized) = 1
    /\ optimized[1].grads = << <<1, 1>>, <<1, 2>> >>

====
